---- MODULE Spec2Model ----
(***************************************************************************)
(* klayout-converter: load_klayout / parse_polygon / dump_layers / main of *)
(* src/src/klayout_converter.py as a state machine.                        *)
(*                                                                         *)
(* Geometry is rectilinear on a GridSize x GridSize raster: a polygon is   *)
(* the set of unit cells <<x, y>> it covers, a vertex is a lattice point   *)
(* <<x, y>>.  The klayout.db calls the converter makes (split, Region, +=, *)
(* merged, each_point_hull, holes, each_point_hole, properties) are        *)
(* operators over that raster.  Numbers produced by the float arithmetic   *)
(* of the converter are exact rationals <<num, den>>; rounding of IEEE     *)
(* doubles is not represented.                                             *)
(***************************************************************************)
EXTENDS Integers, Sequences, FiniteSets

\* ------------------------------------------------------------------ bounds
GridSize == 3
MaxLayers == 2
MaxShapes == 2

\* ------------------------------------------------------- python constants
None == "None"
NoExc == "NoExc"

\* ------------------------------------------------------ exact arithmetic
RECURSIVE Gcd(_, _)
Gcd(a, b) == IF b = 0 THEN a ELSE Gcd(b, a % b)

RECURSIVE Pow(_, _)
Pow(b, n) == IF n = 0 THEN 1 ELSE b * Pow(b, n - 1)

\* The rational n/d (d > 0, n >= 0) in lowest terms.
Rat(n, d) == LET g == Gcd(n, d) IN <<n \div g, d \div g>>

\* A positive float m * 10^k as the record [m, k]; math.log10 of it is the
\* log-domain number [int |-> k, of |-> m], standing for k + log10(m).
log10(v) == [int |-> v.k, of |-> v.m]

\* l + n for a log-domain l and an integer n.
LogAdd(l, n) == [l EXCEPT !.int = @ + n]

\* 10 ** l
pow10(l) == [m |-> l.of, k |-> l.int]

\* int * float, the product p.x * scale_factor
FloatMul(x, f) == IF f.k >= 0 THEN Rat(x * f.m * Pow(10, f.k), 1)
                  ELSE Rat(x * f.m, Pow(10, 0 - f.k))

\* ------------------------------------------------------------- the raster
Coord == 0 .. (GridSize - 1)
Cells == Coord \X Coord

\* The cells of the rectangle [x1, x2) x [y1, y2).
Rect(x1, y1, x2, y2) == {c \in Cells : x1 <= c[1] /\ c[1] < x2 /\ y1 <= c[2] /\ c[2] < y2}

\* klayout orders points by y, then x.
PointKey(p) == p[2] * (GridSize + 2) + p[1]

MinPoint(ps) == CHOOSE p \in ps : \A q \in ps : PointKey(p) <= PointKey(q)

Neighbours(c) == {<<c[1] - 1, c[2]>>, <<c[1] + 1, c[2]>>, <<c[1], c[2] - 1>>, <<c[1], c[2] + 1>>}

\* The cells of `area` edge-connected to the cells `seen`, `front` being
\* those of `seen` found last.
RECURSIVE Flood(_, _, _)
Flood(area, seen, front) ==
    LET more == (UNION {Neighbours(c) : c \in front} \cap area) \ seen
    IN IF more = {} THEN seen ELSE Flood(area, seen \cup more, more)

\* The connected pieces of `area`, ordered by their lowest-left cell.
RECURSIVE Components(_)
Components(area) ==
    IF area = {} THEN <<>>
    ELSE LET first == Flood(area, {MinPoint(area)}, {MinPoint(area)})
         IN <<first>> \o Components(area \ first)

\* Two cells meeting at a corner only (or two gaps doing so): the contour
\* klayout produces there depends on its coherence mode.
HasKissingCorner(area) ==
    \E x \in 1 .. (GridSize - 1), y \in 1 .. (GridSize - 1) :
        LET a == <<x - 1, y - 1>> \in area
            b == <<x, y>> \in area
            c == <<x - 1, y>> \in area
            d == <<x, y - 1>> \in area
        IN (a /\ b /\ ~c /\ ~d) \/ (c /\ d /\ ~a /\ ~b)

\* The unit edges of the boundary of `area`, each directed with the area on
\* its right: the outer contour runs clockwise, a hole's counterclockwise.
BoundaryEdges(area) ==
    UNION {
        (IF <<c[1] - 1, c[2]>> \in area THEN {} ELSE {<<c, <<c[1], c[2] + 1>>>>})
        \cup (IF <<c[1], c[2] + 1>> \in area THEN {}
              ELSE {<<<<c[1], c[2] + 1>>, <<c[1] + 1, c[2] + 1>>>>})
        \cup (IF <<c[1] + 1, c[2]>> \in area THEN {}
              ELSE {<<<<c[1] + 1, c[2] + 1>>, <<c[1] + 1, c[2]>>>>})
        \cup (IF <<c[1], c[2] - 1>> \in area THEN {}
              ELSE {<<<<c[1] + 1, c[2]>>, c>>})
        : c \in area}

\* The lattice points of the closed contour through `start`, from `start` on.
RECURSIVE Walk(_, _, _, _)
Walk(edges, start, cur, acc) ==
    LET e == CHOOSE f \in edges : f[1] = cur
    IN IF e[2] = start THEN acc ELSE Walk(edges, start, e[2], Append(acc, e[2]))

\* A contour without the points its edges pass straight through.
Corners(c) ==
    LET n == Len(c)
        prev(i) == c[IF i = 1 THEN n ELSE i - 1]
        next(i) == c[IF i = n THEN 1 ELSE i + 1]
        turns(p) == <<next(p[1])[1] - p[2][1], next(p[1])[2] - p[2][2]>>
                    # <<p[2][1] - prev(p[1])[1], p[2][2] - prev(p[1])[2]>>
        kept == SelectSeq([i \in 1 .. n |-> <<i, c[i]>>], turns)
    IN [i \in 1 .. Len(kept) |-> kept[i][2]]

RECURSIVE ContoursOf(_)
ContoursOf(edges) ==
    IF edges = {} THEN <<>>
    ELSE LET start == MinPoint({e[1] : e \in edges})
             loop == Walk(edges, start, start, <<start>>)
             on == {loop[i] : i \in 1 .. Len(loop)}
         IN <<Corners(loop)>> \o ContoursOf({e \in edges : e[1] \notin on})

\* A klayout.db.Polygon in normal form: the outer contour, then the holes'.
PolygonOf(area) ==
    LET cs == ContoursOf(BoundaryEdges(area))
    IN [hull |-> cs[1], holes |-> Tail(cs)]

\* klayout.db.Polygon.each_point_hull, .holes, .each_point_hole
each_point_hull(poly) == poly.hull

holes(poly) == Len(poly.holes)

each_point_hole(poly, hole) == poly.holes[hole + 1]

\* ----------------------------------------------------- klayout.db shapes
\* A shape of a cell: a polygon-like shape (polygon, box, path) with the
\* cells it covers, or one that is none (a text), for which shape.polygon
\* is None.  props is the user property bag, a function from keys to values.
PropKeys == {"devicegen_name", "label"}
PropBags == {<<>>, [devicegen_name |-> "pad2"]}

Shape(is_polygon, cells, props) == [is_polygon |-> is_polygon, cells |-> cells, props |-> props]

\* dict.get(key, "")
Get_EmptyDefault(props, key) == IF key \in DOMAIN props THEN props[key] ELSE ""

\* dict.get(key, None)
Get(props, key) == IF key \in DOMAIN props THEN props[key] ELSE None

\* klayout.db.Polygon.split: the polygon cut along one grid line into the
\* connected pieces either side of it (the library leaves the cut
\* unspecified), or left whole when it is not cut.
SplitAt(poly, axis, at) ==
    Components({c \in poly : c[axis] < at}) \o Components({c \in poly : c[axis] >= at})

split(poly) ==
    {<<poly>>} \cup
    {SplitAt(poly, cut[1], cut[2]) :
        cut \in {q \in {1, 2} \X (1 .. (GridSize - 1)) :
                    (\E c \in poly : c[q[1]] < q[2]) /\ (\E c \in poly : c[q[1]] >= q[2])}}

\* klayout.db.Region(part): a region is the sequence of its polygons;
\* region += new_region joins the two sequences.
Region(part) == <<part>>

RECURSIVE RegionSum(_)
RegionSum(regions) ==
    IF Len(regions) = 1 THEN regions[1]
    ELSE RegionSum(<<regions[1] \o regions[2]>> \o SubSeq(regions, 3, Len(regions)))

\* klayout.db.Region.merged: the polygons of the union of the region's
\* polygons, one per connected piece.
merged(region) ==
    LET pieces == Components(UNION {region[i] : i \in 1 .. Len(region)})
    IN [i \in 1 .. Len(pieces) |-> PolygonOf(pieces[i])]

\* ------------------------------------------------------- parse_polygon
ScalePoints(points, scale_factor) ==
    [i \in 1 .. Len(points) |->
        <<FloatMul(points[i][1], scale_factor), FloatMul(points[i][2], scale_factor)>>]

Raise(exception) == [exc |-> exception]
Return(value) == [exc |-> NoExc, val |-> value]

\* The loop of lines 40-41 left out: the first part's region alone.
SumOfParts_FirstOnly(parts) == Region(parts[1])

\* lines 38-41: the regions of the parts, summed into the first
SumOfParts(parts) == RegionSum([i \in 1 .. Len(parts) |-> Region(parts[i])])

\* The last of the merged polygons taken.
NextOf_Last(polys) == polys[Len(polys)]

\* line 43: next(...each()) takes the first of the merged polygons
NextOf(polys) == polys[1]

\* range(1, poly.holes())
HoleRange_FromOne(poly) == [i \in 1 .. (holes(poly) - 1) |-> i]

\* line 51: range(poly.holes())
HoleRange(poly) == [i \in 1 .. holes(poly) |-> i - 1]

\* shape.polygon: None for a shape that is no polygon, box or path
HasPolygon(shape) == shape.is_polygon

\* What poly.split() may return at line 37 (nothing, when line 37 raises).
SplitResults(shape) == IF HasPolygon(shape) THEN split(shape.cells) ELSE {<<>>}

\* parse_polygon(shape, name_property, scale_factor), `parts` being what
\* poly.split() returned in the call.
parse_polygon(shape, name_property, scale_factor, parts) ==
    IF ~HasPolygon(shape) THEN Raise("AttributeError")
    ELSE IF Len(parts) = 0 THEN Raise("StopIteration")
    ELSE LET region == SumOfParts(parts)
             polys == merged(region)
         IN IF Len(polys) = 0 THEN Raise("StopIteration")
            ELSE LET poly == NextOf(polys)
                 IN Return([name |-> Get(shape.props, name_property),
                            hull_points |-> ScalePoints(each_point_hull(poly), scale_factor),
                            hole_points |-> [n \in 1 .. Len(HoleRange(poly)) |->
                                ScalePoints(each_point_hole(poly, HoleRange(poly)[n]),
                                            scale_factor)]])

\* ------------------------------------------------------------ the inputs
\* layout.dbu, the database unit in micrometres, as [m, k] for m * 10^k.
Dbus == {[m |-> 1, k |-> -3], [m |-> 5, k |-> -3]}
Exponents == {-9, -6}
CellNames == {"devicegen", "top"}
\* The one cell of the layout files.
FileCell == "devicegen"
\* LayerInfo.name of the layers, by position; "" is a layer without a name.
LayerNames == <<"metal1", "", "via">>
LayerInfo(i) == [name |-> LayerNames[((i - 1) % Len(LayerNames)) + 1]]

\* The polygons a shape may cover: unions and differences of two
\* rectangles of the raster (connected or in pieces, with or without a
\* hole, or of no area at all), none with a kissing corner.
Rects == {Rect(a[1], b[1], a[2], b[2]) :
            a \in {q \in (0 .. GridSize) \X (0 .. GridSize) : q[1] < q[2]},
            b \in {q \in (0 .. GridSize) \X (0 .. GridSize) : q[1] < q[2]}}

Polygons == {p \in {r[1] \cup r[2] : r \in Rects \X Rects} \cup {r[1] \ r[2] : r \in Rects \X Rects} :
                ~HasKissingCorner(p)}

TextShape == Shape(FALSE, {}, <<>>)

\* The shapes the layouts of a run are built from.
RunShapes == {Shape(TRUE, Rect(0, 0, 2, 1), [devicegen_name |-> "pad1"]),
              Shape(TRUE, Rect(0, 0, 3, 3) \ Rect(1, 1, 2, 2), <<>>),
              Shape(TRUE, Rect(0, 0, 1, 1) \cup Rect(2, 0, 3, 2), [label |-> "pad2"]),
              TextShape}

BoundedSeq(S, n) == UNION {[1 .. m -> S] : m \in 0 .. n}

RECURSIVE SumLen(_, _)
SumLen(f, n) == IF n = 0 THEN 0 ELSE Len(f[n - 1]) + SumLen(f, n - 1)

\* A layout file's content: n layers with indexes 0 .. n-1, one cell, and
\* at most MaxShapes shapes of that cell over all layers.
Layouts ==
    UNION {
        {[dbu |-> d, cells |-> {FileCell},
          layer_indexes |-> [i \in 1 .. n |-> i - 1],
          layer_infos |-> [i \in 1 .. n |-> LayerInfo(i)],
          shapes |-> [cell \in {FileCell} |-> sh]] :
            d \in Dbus,
            sh \in {f \in [0 .. (n - 1) -> BoundedSeq(RunShapes, MaxShapes)] :
                        SumLen(f, n) <= MaxShapes}}
        : n \in 0 .. MaxLayers}

\* klayout.db.Layout(): no cell, no layer, a database unit of 1 nm.
NewLayout == [dbu |-> [m |-> 1, k |-> -3], cells |-> {}, layer_indexes |-> <<>>,
              layer_infos |-> <<>>, shapes |-> <<>>]

\* ------------------------------------------------------------- the state
VARIABLES
    pc,             \* where main (or the parse_polygon call) stands
    in_file,        \* what args.in_file names: "missing", "dir" or "file"
    args,           \* top_cell, name_property, length_unit
    layout,         \* the klayout.db.Layout of load_klayout
    scale_factor,   \* load_klayout's scale_factor, [m, k]
    devicegen_cell, \* load_klayout's devicegen_cell: a cell name or None
    li,             \* layers the loop of load_klayout has entered
    si,             \* shapes of the current layer it has parsed
    layers,         \* load_klayout's layers
    ret,            \* what load_klayout returned to main: the layers list
    exc,            \* the exception that ended the run, or NoExc
    out_file,       \* what the run did at args.out_file: its directory made, the
                    \* file written, and the JSON in it
    call            \* the parse_polygon call of PolySpec: shape, parts, result

vars == <<pc, in_file, args, layout, scale_factor, devicegen_cell, li, si, layers,
          ret, exc, out_file, call>>

NoScale == [m |-> 0, k |-> 0]
NoReturn == [layers |-> <<>>]
Untouched == [parent_made |-> FALSE, written |-> FALSE,
              json |-> [length_unit |-> 0, layers |-> <<>>]]
NoCall == [shape |-> TextShape, parts |-> <<>>, result |-> Raise("NotCalled")]

Init ==
    /\ pc = "check"
    /\ in_file \in {"missing", "dir", "file"}
    /\ args \in [top_cell : CellNames, name_property : PropKeys, length_unit : Exponents]
    /\ layout = NewLayout
    /\ scale_factor = NoScale
    /\ devicegen_cell = None
    /\ li = 0
    /\ si = 0
    /\ layers = <<>>
    /\ ret = NoReturn
    /\ exc = NoExc
    /\ out_file = Untouched
    /\ call = NoCall

\* ------------------------------------------------------------ load_klayout
\* file.exists() alone: a directory passes.
IsRegularFile_ExistsOnly(file) == file # "missing"

\* file.exists() and file.is_file()
IsRegularFile(file) == file = "file"

\* The database unit taken for metres: no -6.
ScaleFactor_DbuAsMetres(dbu, length_unit_exponent) ==
    pow10(LogAdd(log10(dbu), 0 - length_unit_exponent))

\* 10 ** (-6 + math.log10(layout.dbu) - length_unit_exponent)
ScaleFactor(dbu, length_unit_exponent) ==
    pow10(LogAdd(LogAdd(log10(dbu), -6), 0 - length_unit_exponent))

\* A missing cell replaced by a cell the layout has.
layout_cell_Fallback(lay, cell) ==
    IF cell \in lay.cells THEN cell ELSE CHOOSE c \in lay.cells : TRUE

\* layout.cell(cell): the cell of that name, or None
layout_cell(lay, cell) == IF cell \in lay.cells THEN cell ELSE None

\* devicegen_cell.each_shape(layer)
each_shape(lay, cell, layer) == lay.shapes[cell][layer]

\* main catching the exception and going on to dump_layers.
OnRaise_Caught == "loaded"

\* An exception nothing in main catches ends the run.
OnRaise == "raised"

Raised(exception) ==
    /\ pc' = OnRaise
    /\ exc' = exception

\* lines 85-89
CheckFile ==
    /\ pc = "check"
    /\ IF IsRegularFile(in_file)
       THEN pc' = "read" /\ exc' = exc
       ELSE Raised("ValueError")
    /\ UNCHANGED <<in_file, args, layout, scale_factor, devicegen_cell, li, si, layers,
                   ret, out_file, call>>

\* line 91: the file holds a layout, or one klayout cannot read
ReadLayout ==
    /\ pc = "read"
    /\ \/ /\ layout' \in Layouts
          /\ pc' = "scale"
          /\ exc' = exc
       \/ /\ layout' = layout
          /\ Raised("RuntimeError")
    /\ UNCHANGED <<in_file, args, scale_factor, devicegen_cell, li, si, layers, ret,
                   out_file, call>>

\* line 93
ComputeScale ==
    /\ pc = "scale"
    /\ scale_factor' = ScaleFactor(layout.dbu, args.length_unit)
    /\ pc' = "cell"
    /\ UNCHANGED <<in_file, args, layout, devicegen_cell, li, si, layers, ret, exc,
                   out_file, call>>

\* lines 95-97
FindCell ==
    /\ pc = "cell"
    /\ devicegen_cell' = layout_cell(layout, args.top_cell)
    /\ IF devicegen_cell' = None
       THEN Raised("KeyError")
       ELSE pc' = "loop" /\ exc' = exc
    /\ UNCHANGED <<in_file, args, layout, scale_factor, li, si, layers, ret, out_file, call>>

\* The shapes of the target cell on the layer the loop is in.
CurrentShapes == each_shape(layout, devicegen_cell, layout.layer_indexes[li])

LayerDone == IF li = 0 THEN TRUE ELSE si = Len(CurrentShapes)

\* layers.insert(0, dg_layer)
AppendLayer_Front(ls, info) == <<[name |-> info.name, shapes |-> <<>>]>> \o ls

\* layers.append(dg_layer), dg_layer = dict(name=info.name, shapes=[])
AppendLayer(ls, info) == Append(ls, [name |-> info.name, shapes |-> <<>>])

\* dg_layer["shapes"].append(polygon), dg_layer being the last of layers
AppendShape(ls, polygon) == [ls EXCEPT ![Len(ls)].shapes = Append(@, polygon)]

\* lines 99-104: the next (layer, info) of the zip
NextLayer ==
    /\ pc = "loop"
    /\ LayerDone
    /\ li < Len(layout.layer_indexes)
    /\ li' = li + 1
    /\ si' = 0
    /\ layers' = AppendLayer(layers, layout.layer_infos[li + 1])
    /\ UNCHANGED <<pc, in_file, args, layout, scale_factor, devicegen_cell, ret, exc,
                   out_file, call>>

\* lines 106-107: the next shape of the layer
ParseShape ==
    /\ pc = "loop"
    /\ ~LayerDone
    /\ LET shape == CurrentShapes[si + 1]
       IN \E parts \in SplitResults(shape) :
            LET r == parse_polygon(shape, args.name_property, scale_factor, parts)
            IN IF r.exc = NoExc
               THEN /\ layers' = AppendShape(layers, r.val)
                    /\ si' = si + 1
                    /\ pc' = pc
                    /\ exc' = exc
               ELSE /\ Raised(r.exc)
                    /\ UNCHANGED <<layers, si>>
    /\ UNCHANGED <<in_file, args, layout, scale_factor, devicegen_cell, li, ret, out_file, call>>

\* line 109
ReturnLayers ==
    /\ pc = "loop"
    /\ LayerDone
    /\ li = Len(layout.layer_indexes)
    /\ ret' = [layers |-> layers]
    /\ pc' = "loaded"
    /\ UNCHANGED <<in_file, args, layout, scale_factor, devicegen_cell, li, si, layers, exc,
                   out_file, call>>

\* ------------------------------------------------------------ dump_layers
\* The default exponent written whatever was asked for.
Json_DefaultUnit(length_unit, ls) == [length_unit |-> -9, layers |-> ls]

\* json.dump(dict(length_unit=length_unit, layers=layers), f)
Json(length_unit, ls) == [length_unit |-> length_unit, layers |-> ls]

\* lines 116-124, called at line 172 with args.length_unit and the layers
\* load_klayout returned: the parent directory is made; the file may exist,
\* and the user then answers; anything but "y" exits with status 0.
DumpLayers ==
    /\ pc = "loaded"
    /\ \E exists \in BOOLEAN, answer \in {"y", "n"} :
        IF exists /\ answer # "y"
        THEN /\ out_file' = [out_file EXCEPT !.parent_made = TRUE]
             /\ pc' = "exit"
        ELSE /\ out_file' = [parent_made |-> TRUE, written |-> TRUE,
                             json |-> Json(args.length_unit, ret.layers)]
             /\ pc' = "done"
    /\ UNCHANGED <<in_file, args, layout, scale_factor, devicegen_cell, li, si, layers, ret,
                   exc, call>>

Next ==
    \/ CheckFile
    \/ ReadLayout
    \/ ComputeScale
    \/ FindCell
    \/ NextLayer
    \/ ParseShape
    \/ ReturnLayers
    \/ DumpLayers

Spec == Init /\ [][Next]_vars

\* ------------------------------------------------ parse_polygon on its own
\* One call of parse_polygon on any shape and key.
PolyShapes == {Shape(TRUE, p, b) : p \in Polygons, b \in PropBags}
              \cup {Shape(FALSE, {}, b) : b \in PropBags}

\* A database unit of 1 nm written in micrometres: every coordinate / 1000.
PolyScale == ScaleFactor([m |-> 1, k |-> -3], -6)

PolyInit ==
    /\ pc = "poly"
    /\ in_file = "file"
    /\ args \in [top_cell : {FileCell}, name_property : PropKeys, length_unit : {-6}]
    /\ layout = NewLayout
    /\ scale_factor = PolyScale
    /\ devicegen_cell = None
    /\ li = 0
    /\ si = 0
    /\ layers = <<>>
    /\ ret = NoReturn
    /\ exc = NoExc
    /\ out_file = Untouched
    /\ call \in [shape : PolyShapes, parts : {<<>>}, result : {Raise("NotCalled")}]

\* lines 34-61
PolyCall ==
    /\ pc = "poly"
    /\ \E parts \in SplitResults(call.shape) :
        call' = [call EXCEPT !.parts = parts,
                             !.result = parse_polygon(call.shape, args.name_property,
                                                      scale_factor, parts)]
    /\ pc' = "poly_done"
    /\ UNCHANGED <<in_file, args, layout, scale_factor, devicegen_cell, li, si, layers, ret,
                   exc, out_file>>

PolySpec == PolyInit /\ [][PolyCall]_vars

\* ------------------------------------------------------------- properties
\* load_klayout has returned to main (line 168).
Returned == pc \in {"loaded", "done", "exit"}

\* layout.read has filled the layout.
LayoutRead == layout # NewLayout

\* The raw shapes of the target cell on the i-th layer of the layout.
RawShapes(i) == each_shape(layout, FileCell, layout.layer_indexes[i])

\* Nothing of a result exists: no layer, no return value, no output.
NothingProduced == li = 0 /\ layers = <<>> /\ ~Returned /\ out_file = Untouched

\* C1: a path that does not exist or is no regular file makes load_klayout
\* raise its invalid-file error (ValueError) before the layout is read and
\* before any layer or shape is iterated; no layer result is produced.
C1_InvalidFileRaisesFirst ==
    (in_file # "file" /\ pc # "check") =>
        /\ pc = "raised"
        /\ exc = "ValueError"
        /\ ~LayoutRead
        /\ scale_factor = NoScale
        /\ NothingProduced

C1_Witness == in_file = "dir" /\ pc = "raised" /\ exc = "ValueError"

\* C2: with a valid file whose layout lacks the requested top cell,
\* load_klayout raises the missing-cell error (KeyError) right after the
\* layout is read, before any layer is iterated or any shape normalized.
C2_MissingCellRaises ==
    (LayoutRead /\ args.top_cell \notin layout.cells /\ pc \notin {"scale", "cell"}) =>
        /\ pc = "raised"
        /\ exc = "KeyError"
        /\ devicegen_cell = None
        /\ NothingProduced

C2_Witness ==
    /\ pc = "raised"
    /\ exc = "KeyError"
    /\ Len(layout.layer_indexes) = MaxLayers
    /\ Len(layout.shapes[FileCell][0]) > 0

\* C3: the conversion is all or nothing.  The output file is written only
\* after load_klayout has returned with every layer and every shape, and a
\* run that an exception ended (the file check, the read, the cell lookup,
\* the normalization of a shape) has left the output file untouched.
C3_AllOrNothing ==
    /\ out_file.written =>
        /\ pc = "done"
        /\ exc = NoExc
        /\ out_file.json.layers = ret.layers
        /\ ret.layers = layers
        /\ Len(layers) = Len(layout.layer_indexes)
        /\ \A i \in 1 .. Len(layers) : Len(layers[i].shapes) = Len(RawShapes(i))
    /\ exc # NoExc => (pc = "raised" /\ out_file = Untouched)
    /\ pc = "raised" => exc # NoExc

\* A shape fails after others were normalized: partial layers exist.
C3_Witness ==
    /\ pc = "raised"
    /\ exc = "AttributeError"
    /\ Len(layers) = MaxLayers
    /\ layers[1].shapes # <<>>
    /\ out_file = Untouched

\* Rational arithmetic for the expected values, a/b as <<a, b>>, cancelling
\* before multiplying.
TenTo(n) == IF n >= 0 THEN <<Pow(10, n), 1>> ELSE <<1, Pow(10, 0 - n)>>

RatMul(a, b) ==
    LET g == Gcd(a[1], b[2])
        h == Gcd(b[1], a[2])
    IN Rat((a[1] \div g) * (b[1] \div h), (a[2] \div h) * (b[2] \div g))

RatDiv(a, b) == RatMul(a, <<b[2], b[1]>>)

\* The database unit in metres: dbu micrometres.
DbuInMeters(dbu) == RatMul(RatMul(<<dbu.m, 1>>, TenTo(dbu.k)), TenTo(-6))

\* d / 10**e
ExpectedFactor(dbu, e) == RatDiv(DbuInMeters(dbu), TenTo(e))

ExpectedPoints(points, factor) ==
    [i \in 1 .. Len(points) |->
        <<RatMul(<<points[i][1], 1>>, factor), RatMul(<<points[i][2], 1>>, factor)>>]

\* The merged polygons of a raw shape, in klayout's order.
MergedOf(shape) == merged(<<shape.cells>>)

\* The layers as far as the run has them: written, returned or in the loop.
Emitted == IF out_file.written THEN out_file.json.layers
           ELSE IF Returned THEN ret.layers ELSE layers

C5_LayersInOrder ==
    (pc \in {"loop", "loaded", "done", "exit"}) =>
        /\ Len(Emitted) = (IF Returned THEN Len(layout.layer_indexes) ELSE li)
        /\ \A i \in 1 .. Len(Emitted) :
            /\ Emitted[i].name = layout.layer_infos[i].name
            /\ Len(Emitted[i].shapes) = (IF Returned \/ i < li THEN Len(RawShapes(i)) ELSE si)
            /\ \A j \in 1 .. Len(Emitted[i].shapes) :
                LET raw == RawShapes(i)[j]
                IN Emitted[i].shapes[j] =
                    parse_polygon(raw, args.name_property, scale_factor, <<raw.cells>>).val

\* A layer without shapes precedes one with two different shapes.
C5_Witness ==
    /\ Returned
    /\ Len(ret.layers) = MaxLayers
    /\ ret.layers[1].shapes = <<>>
    /\ Len(ret.layers[MaxLayers].shapes) > 1
    /\ ret.layers[MaxLayers].shapes[1] # ret.layers[MaxLayers].shapes[2]

\* C9 as stated: load_klayout called with length_unit_exponent e returns a
\* ConversionResult {length_unit, layers} whose length_unit is e.
C9_LoaderReturnsConversionResult ==
    Returned => ("length_unit" \in DOMAIN ret /\ ret.length_unit = args.length_unit)

\* C9 amended: load_klayout returns the layers list alone; main hands the
\* same exponent e to load_klayout and to dump_layers, so the output written
\* is {length_unit: e, layers: the returned layers}, e being the exponent of
\* the scale factor applied to the coordinates.
C9_OutputUnitIsScaleExponent ==
    /\ Returned => (DOMAIN ret = {"layers"} /\ ret.layers = layers)
    /\ out_file.written =>
        /\ DOMAIN out_file.json = {"length_unit", "layers"}
        /\ out_file.json.length_unit = args.length_unit
        /\ out_file.json.layers = ret.layers
        /\ FloatMul(1, scale_factor) = ExpectedFactor(layout.dbu, out_file.json.length_unit)

C9_Witness ==
    /\ out_file.written
    /\ out_file.json.length_unit = -6
    /\ Len(out_file.json.layers) > 0
    /\ out_file.json.layers[1].shapes # <<>>

\* C10: a raw shape whose parts merge into k >= 1 polygons never makes
\* parse_polygon raise and gives exactly one entry, built from the first
\* merged polygon alone; so every finished layer has as many entries as the
\* target cell has raw shapes on it, and the layer in progress as many as
\* shapes were iterated.
C10_FirstMergedOnly ==
    (pc \in {"loop", "loaded", "done", "exit", "raised"} /\ devicegen_cell # None) =>
        /\ \A i \in 1 .. Len(Emitted) :
            /\ Len(Emitted[i].shapes) = (IF Returned \/ i < li THEN Len(RawShapes(i)) ELSE si)
            /\ \A j \in 1 .. Len(Emitted[i].shapes) :
                LET raw == RawShapes(i)[j]
                    polys == MergedOf(raw)
                    out == Emitted[i].shapes[j]
                IN /\ HasPolygon(raw)
                   /\ Len(polys) >= 1
                   /\ Len(out.hull_points) = Len(polys[1].hull)
                   /\ Len(out.hole_points) = Len(polys[1].holes)
                   /\ \A n \in 1 .. Len(out.hull_points) :
                        out.hull_points[n] = <<FloatMul(polys[1].hull[n][1], scale_factor),
                                               FloatMul(polys[1].hull[n][2], scale_factor)>>
        /\ (pc = "raised" /\ exc # "KeyError") =>
                LET raw == RawShapes(li)[si + 1]
                IN ~HasPolygon(raw) \/ Len(MergedOf(raw)) = 0

\* A returned layer holds the entry of a shape that merges into 2 polygons.
C10_Witness ==
    /\ Returned
    /\ \E i \in 1 .. Len(ret.layers) :
        /\ Len(ret.layers[i].shapes) = MaxShapes
        /\ \E j \in 1 .. MaxShapes : Len(MergedOf(RawShapes(i)[j])) = 2

\* ---------------------------------------- properties of parse_polygon
Done == pc = "poly_done"

\* The shape has a polygon and its parts merge into at least one polygon.
Normalizable(shape) == HasPolygon(shape) /\ Len(Components(shape.cells)) >= 1

\* The shape with `value` stored under `key`.
WithProperty(shape, key, value) ==
    [shape EXCEPT !.props = [k \in DOMAIN shape.props \cup {key} |->
                                IF k = key THEN value ELSE shape.props[k]]]

PointsOf(seq) == {seq[i] : i \in 1 .. Len(seq)}

\* C7: what parse_polygon returns depends on the union of the parts only,
\* not on how split() cut the polygon: whatever the parts, it is what the
\* polygon left whole gives; so a simple polygon without holes cut in 2
\* parts normalizes as the same polygon in one part.
C7_SplitIndependent ==
    (Done /\ HasPolygon(call.shape)) =>
        /\ UNION PointsOf(call.parts) = call.shape.cells
        /\ call.result = parse_polygon(call.shape, args.name_property, scale_factor,
                                       <<call.shape.cells>>)

\* A simple polygon without holes, cut in 2 parts.
C7_Witness ==
    /\ Done
    /\ Len(call.parts) = 2
    /\ Len(MergedOf(call.shape)) = 1
    /\ call.result.exc = NoExc
    /\ call.result.val.hole_points = <<>>
    /\ Len(call.result.val.hull_points) > 4

\* The cells around a lattice point, and the corners of an area: the
\* lattice points with 1 or 3 of those cells in the area.
Around(v) == {<<v[1] - 1, v[2] - 1>>, <<v[1], v[2] - 1>>, <<v[1] - 1, v[2]>>, v}

CornersOf(area) ==
    {v \in (0 .. GridSize) \X (0 .. GridSize) : Cardinality(Around(v) \cap area) \in {1, 3}}

\* The raster with a rim of cells around it, what of it the area leaves
\* reachable from the rim, and the gaps it encloses, lowest-left first.
Frame == (-1 .. GridSize) \X (-1 .. GridSize)
Outside(area) == Flood(Frame \ area, {<<-1, -1>>}, {<<-1, -1>>})
Enclosed(area, outside) == Components((Frame \ area) \ outside)

Scaled(vs, f) == {<<FloatMul(v[1], f), FloatMul(v[2], f)>> : v \in vs}

====
